---- MODULE Spec2Model ----
(***************************************************************************)
(* Model of AirthingsClient (src/src/client.ts, lines 11-200): the cached  *)
(* access token, the lazily resolved account id, the rate-limit metrics    *)
(* and the request pipeline of getAccounts / getDevices / getSensors.      *)
(*                                                                         *)
(* Each public operation is an async function.  A slot of `op` holds one   *)
(* invocation and its position (pc) between two awaits.  The code between  *)
(* two awaits runs without interruption and is one action.  An await of a  *)
(* network promise (fetch, response.json) is a suspension during which     *)
(* time passes and other operations run; an await of an already settled    *)
(* promise of the client's own async methods only yields to other ready    *)
(* continuations: other operations may run there, the clock does not       *)
(* advance.                                                                *)
(***************************************************************************)
EXTENDS Integers, Sequences, FiniteSets, TLC

VARIABLES
    accessToken,       \* #accessToken: Null or [token, type, expires]
    accountId,         \* #opts.accountId: Undefined or a string
    rateLimitMetrics,  \* #rateLimitMetrics: [limit, remaining, reset]
    now,               \* Date.now(), in milliseconds
    op,                \* slot -> the invocation it holds
    ctorAccountId,     \* the accountId the constructor was given (never changes)
    entry,             \* the client's state at the call of the operation in
                       \* progress, while no other operation has overlapped it
    held               \* what the caller last got from getSensorsRateLimitMetrics

vars == <<accessToken, accountId, rateLimitMetrics, now, op, ctorAccountId, entry, held>>

----------------------------------------------------------------------------
(* Bounds of the model *)

\* clock advances in one behaviour, of operations one at a time
MaxTicks == 2
\* clock advances in one behaviour, of overlapping operations
ConcMaxTicks == 1

\* operations that may be in progress at the same time
Slots == {1, 2}

----------------------------------------------------------------------------
(* Values *)

\* null, as the value of #accessToken
Null == [null |-> TRUE]
\* undefined, as the value of an optional string
Undefined == "undefined"
\* a JavaScript number: an integer k, or NaN
Num(k) == [n |-> k]
NaN == [nan |-> TRUE]
\* a response header: absent, or present with the sequence of its characters
Absent == [absent |-> TRUE]
Header(chars) == [value |-> chars]
\* the optional argument sn of getSensors: not given, or a list of strings
NoSn == [given |-> FALSE]
Sn(list) == [given |-> TRUE, list |-> list]
None == "none"

\* the safety margin of #refreshAccessToken, in milliseconds
Margin == 5 * 60 * 1000

\* one clock advance, in milliseconds
TickMs == Margin

\* JavaScript truthiness of an optional string: undefined and '' are falsy
Falsy(s) == s = Undefined \/ s = ""

\* Response.ok: the status is in the range 200-299
Ok(status) == status >= 200 /\ status <= 299

\* what the servers may answer ------------------------------------------

\* bodies of the token endpoint: {access_token, token_type, expires_in}
TokenResponses ==
    { [access_token |-> "tok1", token_type |-> "Bearer", expires_in |-> 900],
      [access_token |-> "tok2", token_type |-> "bearer", expires_in |-> 600],
      [access_token |-> "tok3", token_type |-> "Bearer", expires_in |-> 1] }

\* non-2xx answers: status and body text
ErrorResponses ==
    { [status |-> 401, body |-> "unauthorized"],
      [status |-> 500, body |-> "oops"] }

\* a 2xx answer; its body is read separately
OkResponse == [status |-> 200, body |-> "json"]

Responses == {OkResponse} \cup ErrorResponses

\* ids of the accounts endpoint are non-empty strings
AccountsBodies ==
    { <<>>,
      <<[id |-> "acct-1"]>>,
      <<[id |-> "acct-2"], [id |-> "acct-1"]>> }

DevicesBody == <<[serialNumber |-> "2960000000", name |-> "My Airthings"]>>
SensorsBody == <<[serialNumber |-> "2960000000", sensors |-> <<"temp">>]>>

\* the three rate-limit headers of a response
Headers ==
    { [limit |-> Header(<<"1", "0", "0">>), remaining |-> Header(<<"9", "9">>),
       reset |-> Absent],
      [limit |-> Absent, remaining |-> Absent, reset |-> Header(<<"6", "0">>)],
      [limit |-> Header(<<"a", "b", "c">>), remaining |-> Header(<<>>),
       reset |-> Header(<<"0">>)] }

\* arguments of getSensors: unit and the optional serial-number list
SensorArgs ==
    { [unit |-> "Metric", sn |-> NoSn],
      [unit |-> "Imperial", sn |-> Sn(<<"111", "222">>)],
      [unit |-> "Metric", sn |-> Sn(<<>>)] }

NoArgs == [unit |-> None, sn |-> NoSn]

\* accountId values the constructor may be given
CtorAccountIds == {Undefined, "acct-0"}

----------------------------------------------------------------------------
(* Pure helpers *)

Digits == {"0", "1", "2", "3", "4", "5", "6", "7", "8", "9"}

DigitVal(c) ==
    CASE c = "0" -> 0 [] c = "1" -> 1 [] c = "2" -> 2 [] c = "3" -> 3
      [] c = "4" -> 4 [] c = "5" -> 5 [] c = "6" -> 6 [] c = "7" -> 7
      [] c = "8" -> 8 [] c = "9" -> 9

RECURSIVE DigitPrefix(_, _)
\* value of the longest prefix of digits of s, continuing from acc
DigitPrefix(s, acc) ==
    IF s = <<>> \/ Head(s) \notin Digits THEN acc
    ELSE DigitPrefix(Tail(s), acc * 10 + DigitVal(Head(s)))

\* parseInt(s) for a string without leading white space: an optional sign,
\* then the longest prefix of digits; NaN when there is no digit
ParseInt(s) ==
    LET neg == s # <<>> /\ Head(s) = "-"
        pos == s # <<>> /\ Head(s) = "+"
        rest == IF neg \/ pos THEN Tail(s) ELSE s
    IN IF rest = <<>> \/ Head(rest) \notin Digits THEN NaN
       ELSE IF neg THEN Num(0 - DigitPrefix(rest, 0)) ELSE Num(DigitPrefix(rest, 0))

\* the default '0' in place of '-1'
RateLimitDefaultZero == <<"0">>

\* the default of `headers.get(name) || '-1'`
RateLimitDefault == <<"-", "1">>

\* parseInt(response.headers.get(name) || '-1'): headers.get gives null for
\* an absent header, and null and '' are falsy
HeaderMetric(h) ==
    ParseInt(IF h = Absent \/ h.value = <<>> THEN RateLimitDefault ELSE h.value)

\* SensorUnits[unit].toLowerCase()
UnitLower(unit) == IF unit = "Metric" THEN "metric" ELSE "imperial"

RECURSIVE Join(_)
\* sn.join(',')
Join(sn) ==
    IF sn = <<>> THEN <<>>
    ELSE IF Len(sn) = 1 THEN <<sn[1]>>
    ELSE <<sn[1], ",">> \o Join(Tail(sn))

AccountsUrl == [path |-> <<"v1", "accounts">>, query |-> <<>>]

DevicesUrl(acct) ==
    [path |-> <<"v1", "accounts", acct, "devices">>, query |-> <<>>]

\* the sn parameter is added for every list given, also an empty one
SensorsUrlAnySn(acct, unit, sn) ==
    [path |-> <<"v1", "accounts", acct, "sensors">>,
     query |-> <<[name |-> "unit", value |-> <<UnitLower(unit)>>]>>
               \o (IF sn.given
                   THEN <<[name |-> "sn", value |-> Join(sn.list)]>>
                   ELSE <<>>)]

\* the url of getSensors: the unit, and the serial numbers if there are any
SensorsUrl(acct, unit, sn) ==
    [path |-> <<"v1", "accounts", acct, "sensors">>,
     query |-> <<[name |-> "unit", value |-> <<UnitLower(unit)>>]>>
               \o (IF sn.given /\ Len(sn.list) > 0
                   THEN <<[name |-> "sn", value |-> Join(sn.list)]>>
                   ELSE <<>>)]

\* new AirthingsError(message)
AirthingsError(message) ==
    [ok |-> FALSE, class |-> "AirthingsError", message |-> message]

\* the error without the body text of the response
RequestErrorNoBody(resp) ==
    AirthingsError(<<"Request Error [", resp.status, "]">>)

\* #handleFetchResponseError for a response that is not ok
RequestError(resp) ==
    AirthingsError(<<"Request Error [", resp.status, ": ", resp.body, "]">>)

NoAccountIdError == AirthingsError(<<"No Account ID">>)

\* what fetch rejects with when the transport fails
FetchTypeError == [ok |-> FALSE, class |-> "TypeError", message |-> <<"fetch failed">>]
NoAccessTokenError == AirthingsError(<<"No Access Token">>)

Returned(data) == [ok |-> TRUE, data |-> data]

\* the comparison inverted
TokenFreshInverted(tok, t) == tok # Null /\ tok.expires - Margin < t

\* a token exactly at the margin counts as fresh
TokenFreshAtMargin(tok, t) == tok # Null /\ tok.expires - Margin >= t

\* the margin forgotten
TokenFreshNoMargin(tok, t) == tok # Null /\ tok.expires > t

\* the margin added instead of subtracted
TokenFreshPlus(tok, t) == tok # Null /\ tok.expires + Margin > t

\* the condition under which #refreshAccessToken returns at once
TokenFresh(tok, t) == tok # Null /\ tok.expires - Margin > t

\* the same condition in the earlier AirthingsClient of client.ts
EarlierTokenFresh(tok, t) == tok # Null /\ tok.expires + (5 * 60 * 1000) > t

\* the same condition in the Airthings class of index.ts (expiresAt)
IndexTokenFresh(tok, t) == tok # Null /\ tok.expires - 300 > t

\* expires_in taken for milliseconds
NewTokenNoScale(tokenData, t) ==
    [token |-> tokenData.access_token,
     type |-> tokenData.token_type,
     expires |-> tokenData.expires_in + t]

\* the token built from a token response at time t
NewToken(tokenData, t) ==
    [token |-> tokenData.access_token,
     type |-> tokenData.token_type,
     expires |-> tokenData.expires_in * 1000 + t]

\* the scheme is always Bearer
AuthHeaderBearer(tok) == <<"Bearer", " ", tok.token>>

\* the Authorization header of a data request
AuthHeader(tok) == <<tok.type, " ", tok.token>>

----------------------------------------------------------------------------
(* Operations *)

NoUrl == [path |-> <<>>, query |-> <<>>]
NoResult == [pending |-> TRUE]
NoResponse == [status |-> 0, body |-> ""]
NoHeaders == [limit |-> Absent, remaining |-> Absent, reset |-> Absent]
NoAccounts == [received |-> FALSE]
\* no body of a token response has been read
NoTokenData == [access_token |-> "", token_type |-> "", expires_in |-> 0]
Accounts(list) == [received |-> TRUE, list |-> list]

\* the Authorization header of the token exchange
BasicAuth == <<"Basic", " ", "base64(clientId:clientSecret)">>

IdleOp ==
    [pc |-> "idle", kind |-> None, args |-> NoArgs, phase |-> None,
     url |-> NoUrl, auth |-> <<>>, reqs |-> <<>>, result |-> NoResult,
     acct0 |-> Undefined, accounts |-> NoAccounts,
     resp |-> NoResponse, headers |-> NoHeaders, tokenData |-> NoTokenData]

Finished(o) == op[o].pc = "done"
Free(o) == op[o].pc = "idle"

TokenUrl == [path |-> <<"v1", "token">>, query |-> <<>>]

\* the endpoint a data request of operation r goes to
Endpoint(r) == IF r.phase = "resolve" THEN "accounts" ELSE r.kind

\* #handleFetch(url) up to its first suspension: #refreshAccessToken
\* returns at once or issues the token exchange
HandleFetch(r, phase, url) ==
    IF TokenFresh(accessToken, now)
    THEN [r EXCEPT !.pc = "afterRefresh", !.phase = phase, !.url = url]
    ELSE [r EXCEPT !.pc = "tokenFetch", !.phase = phase, !.url = url,
                   !.auth = BasicAuth, !.reqs = Append(@, "token")]

\* the accounts are listed whether or not an account id is set
EnsureAlwaysResolves(r) == HandleFetch(r, "resolve", AccountsUrl)

\* the accounts are never listed
EnsureSkipsResolve(r) == [r EXCEPT !.pc = "afterEnsure"]

\* #ensureAccountIdConfig up to its first suspension
EnsureAccountIdConfig(r) ==
    IF Falsy(accountId)
    THEN HandleFetch(r, "resolve", AccountsUrl)
    ELSE [r EXCEPT !.pc = "afterEnsure"]

\* the client's state at a call
Entry == [alone |-> TRUE, token |-> accessToken, accountId |-> accountId, at |-> now]
NoEntry == [alone |-> FALSE]

\* a public operation is called: it runs up to its first await
Invoke(o, kind, args) ==
    /\ Free(o)
    /\ LET r == [IdleOp EXCEPT !.kind = kind, !.args = args, !.acct0 = accountId]
       IN op' = [op EXCEPT ![o] =
                    IF kind = "accounts"
                    THEN HandleFetch(r, "main", AccountsUrl)
                    ELSE EnsureAccountIdConfig(r)]
    /\ entry' = IF \A p \in Slots : Free(p) THEN Entry ELSE NoEntry
    /\ UNCHANGED <<accessToken, accountId, rateLimitMetrics, now, ctorAccountId, held>>

\* getDevices / getSensors after #ensureAccountIdConfig has returned: the
\* url is built from the account id of this instant
AfterEnsure(o) ==
    /\ op[o].pc = "afterEnsure"
    /\ LET r == [op[o] EXCEPT !.accounts = NoAccounts, !.resp = NoResponse,
                              !.headers = NoHeaders]
           url == IF r.kind = "devices" THEN DevicesUrl(accountId)
                  ELSE SensorsUrl(accountId, r.args.unit, r.args.sn)
       IN op' = [op EXCEPT ![o] = HandleFetch(r, "main", url)]
    /\ UNCHANGED <<accessToken, accountId, rateLimitMetrics, now, ctorAccountId, entry, held>>

\* after a failed exchange the token already cached is used
TokenResponseFallsBack(o, resp) ==
    /\ op[o].pc = "tokenFetch"
    /\ op' = [op EXCEPT ![o] =
                IF Ok(resp.status)
                THEN [@ EXCEPT !.pc = "tokenJson", !.resp = resp]
                ELSE IF accessToken # Null
                THEN [@ EXCEPT !.pc = "afterRefresh", !.resp = resp]
                ELSE [@ EXCEPT !.pc = "done", !.resp = resp,
                               !.result = RequestError(resp)]]
    /\ UNCHANGED <<accessToken, accountId, rateLimitMetrics, now, ctorAccountId, entry, held>>

\* a failed exchange is tried again
TokenResponseRetries(o, resp) ==
    /\ op[o].pc = "tokenFetch"
    /\ op' = [op EXCEPT ![o] =
                IF Ok(resp.status)
                THEN [@ EXCEPT !.pc = "tokenJson", !.resp = resp]
                ELSE IF Len(op[o].reqs) < 3
                THEN [@ EXCEPT !.resp = resp, !.reqs = Append(@, "token")]
                ELSE [@ EXCEPT !.pc = "done", !.resp = resp,
                               !.result = RequestError(resp)]]
    /\ UNCHANGED <<accessToken, accountId, rateLimitMetrics, now, ctorAccountId, entry, held>>

\* a failed exchange drops the cached token
TokenResponseClears(o, resp) ==
    /\ op[o].pc = "tokenFetch"
    /\ op' = [op EXCEPT ![o] =
                IF Ok(resp.status)
                THEN [@ EXCEPT !.pc = "tokenJson", !.resp = resp]
                ELSE [@ EXCEPT !.pc = "done", !.resp = resp,
                               !.result = RequestError(resp)]]
    /\ accessToken' = IF Ok(resp.status) THEN accessToken ELSE Null
    /\ UNCHANGED <<accountId, rateLimitMetrics, now, ctorAccountId, entry, held>>

\* the token endpoint answers
TokenResponse(o, resp) ==
    /\ op[o].pc = "tokenFetch"
    /\ op' = [op EXCEPT ![o] =
                IF Ok(resp.status)
                THEN [@ EXCEPT !.pc = "tokenJson", !.resp = resp]
                ELSE [@ EXCEPT !.pc = "done", !.resp = resp,
                               !.result = RequestError(resp)]]
    /\ UNCHANGED <<accessToken, accountId, rateLimitMetrics, now, ctorAccountId, entry, held>>

\* the token already cached is kept when another exchange stored one meanwhile
TokenJsonKeepsFirst(o, tokenData) ==
    /\ op[o].pc = "tokenJson"
    /\ accessToken' = IF TokenFresh(accessToken, now) THEN accessToken
                      ELSE NewToken(tokenData, now)
    /\ op' = [op EXCEPT ![o].pc = "afterRefresh", ![o].tokenData = tokenData]
    /\ UNCHANGED <<accountId, rateLimitMetrics, now, ctorAccountId, entry, held>>

\* the body of the token response is read: the token is stored; tokenData
\* holds the body until #handleFetch goes on
TokenJson(o, tokenData) ==
    /\ op[o].pc = "tokenJson"
    /\ accessToken' = NewToken(tokenData, now)
    /\ op' = [op EXCEPT ![o].pc = "afterRefresh", ![o].tokenData = tokenData]
    /\ UNCHANGED <<accountId, rateLimitMetrics, now, ctorAccountId, entry, held>>

\* #handleFetch after #refreshAccessToken has returned: the data request
AfterRefresh(o) ==
    /\ op[o].pc = "afterRefresh"
    /\ op' = [op EXCEPT ![o] =
                IF accessToken = Null
                THEN [@ EXCEPT !.pc = "done", !.result = NoAccessTokenError]
                ELSE [@ EXCEPT !.pc = "dataFetch",
                               !.tokenData = NoTokenData,
                               !.auth = AuthHeader(accessToken),
                               !.reqs = Append(@, Endpoint(op[o]))]]
    /\ UNCHANGED <<accessToken, accountId, rateLimitMetrics, now, ctorAccountId, entry, held>>

\* a field whose header is absent keeps its previous value
RateLimitWriteMerges(old, h) ==
    [limit |-> IF h.limit = Absent THEN old.limit ELSE HeaderMetric(h.limit),
     remaining |-> IF h.remaining = Absent THEN old.remaining
                   ELSE HeaderMetric(h.remaining),
     reset |-> IF h.reset = Absent THEN old.reset ELSE HeaderMetric(h.reset)]

\* the rate-limit metrics after a sensors response with headers h
RateLimitWrite(old, h) ==
    [limit |-> HeaderMetric(h.limit),
     remaining |-> HeaderMetric(h.remaining),
     reset |-> HeaderMetric(h.reset)]

\* the headers of every response to a main request are read
ReadsRateLimitAlways(r) == r.phase = "main"

\* the response that r awaits is the one getSensors reads the headers of
ReadsRateLimit(r) == r.kind = "sensors" /\ r.phase = "main"

\* a failed data request drops the cached token
DataResponseClears(o, resp, h) ==
    /\ op[o].pc = "dataFetch"
    /\ op' = [op EXCEPT ![o] =
                IF ~Ok(resp.status)
                THEN [@ EXCEPT !.pc = "done", !.resp = resp,
                               !.headers = IF ReadsRateLimit(op[o]) THEN h ELSE @,
                               !.result = RequestError(resp)]
                ELSE IF ReadsRateLimit(op[o])
                THEN [@ EXCEPT !.pc = "dataJson", !.resp = resp, !.headers = h]
                ELSE [@ EXCEPT !.pc = "dataJson", !.resp = resp]]
    /\ rateLimitMetrics' =
          IF Ok(resp.status) /\ ReadsRateLimit(op[o])
          THEN RateLimitWrite(rateLimitMetrics, h)
          ELSE rateLimitMetrics
    /\ accessToken' = IF Ok(resp.status) THEN accessToken ELSE Null
    /\ UNCHANGED <<accountId, now, ctorAccountId, entry, held>>

\* the metrics are written before the response is known to be ok
DataResponseWritesFirst(o, resp, h) ==
    /\ op[o].pc = "dataFetch"
    /\ op' = [op EXCEPT ![o] =
                IF ~Ok(resp.status)
                THEN [@ EXCEPT !.pc = "done", !.resp = resp,
                               !.headers = IF ReadsRateLimit(op[o]) THEN h ELSE @,
                               !.result = RequestError(resp)]
                ELSE IF ReadsRateLimit(op[o])
                THEN [@ EXCEPT !.pc = "dataJson", !.resp = resp, !.headers = h]
                ELSE [@ EXCEPT !.pc = "dataJson", !.resp = resp]]
    /\ rateLimitMetrics' =
          IF ReadsRateLimit(op[o])
          THEN RateLimitWrite(rateLimitMetrics, h)
          ELSE rateLimitMetrics
    /\ UNCHANGED <<accessToken, accountId, now, ctorAccountId, entry, held>>

\* a data endpoint answers; headers holds the rate-limit headers of a
\* sensors response, which the code reads only when the response is ok
DataResponse(o, resp, h) ==
    /\ op[o].pc = "dataFetch"
    /\ op' = [op EXCEPT ![o] =
                IF ~Ok(resp.status)
                THEN [@ EXCEPT !.pc = "done", !.resp = resp,
                               !.headers = IF ReadsRateLimit(op[o]) THEN h ELSE @,
                               !.result = RequestError(resp)]
                ELSE IF ReadsRateLimit(op[o])
                THEN [@ EXCEPT !.pc = "dataJson", !.resp = resp, !.headers = h]
                ELSE [@ EXCEPT !.pc = "dataJson", !.resp = resp]]
    /\ rateLimitMetrics' =
          IF Ok(resp.status) /\ ReadsRateLimit(op[o])
          THEN RateLimitWrite(rateLimitMetrics, h)
          ELSE rateLimitMetrics
    /\ UNCHANGED <<accessToken, accountId, now, ctorAccountId, entry, held>>

\* the fetch of the token endpoint or of a data endpoint rejects: no code
\* of the client catches it, the operation rejects with what fetch threw
FetchRejects(o) ==
    /\ op[o].pc \in {"tokenFetch", "dataFetch"}
    /\ op' = [op EXCEPT ![o].pc = "done", ![o].resp = NoResponse,
                        ![o].result = FetchTypeError]
    /\ UNCHANGED <<accessToken, accountId, rateLimitMetrics, now, ctorAccountId, entry, held>>

\* the last account's id
LastAccountId(accounts) == accounts[Len(accounts)].id

\* the first account's id
FirstAccountId(accounts) == accounts[1].id

\* an empty accounts list is not an error
DataJsonNoThrow(o, accounts) ==
    /\ op[o].pc = "dataJson"
    /\ LET r == op[o] IN
       IF r.phase = "main"
       THEN /\ op' = [op EXCEPT ![o].pc = "done",
                                ![o].result =
                                    Returned(CASE r.kind = "accounts" -> accounts
                                               [] r.kind = "devices" -> DevicesBody
                                               [] r.kind = "sensors" -> SensorsBody)]
            /\ UNCHANGED accountId
       ELSE /\ accountId' = IF Len(accounts) > 0 THEN FirstAccountId(accounts)
                            ELSE accountId
            /\ op' = [op EXCEPT ![o].pc = "afterEnsure",
                                ![o].accounts = Accounts(accounts)]
    /\ UNCHANGED <<accessToken, rateLimitMetrics, now, ctorAccountId, entry, held>>

\* getAccounts stores the first account's id as well
DataJsonAccountsStores(o, accounts) ==
    /\ op[o].pc = "dataJson"
    /\ LET r == op[o] IN
       IF r.phase = "main"
       THEN /\ op' = [op EXCEPT ![o].pc = "done",
                                ![o].result =
                                    Returned(CASE r.kind = "accounts" -> accounts
                                               [] r.kind = "devices" -> DevicesBody
                                               [] r.kind = "sensors" -> SensorsBody)]
            /\ accountId' = IF r.kind = "accounts" /\ Len(accounts) > 0
                                 /\ Falsy(accountId)
                            THEN FirstAccountId(accounts) ELSE accountId
       ELSE IF Len(accounts) > 0
       THEN /\ accountId' = FirstAccountId(accounts)
            /\ op' = [op EXCEPT ![o].pc = "afterEnsure",
                                ![o].accounts = Accounts(accounts)]
       ELSE /\ op' = [op EXCEPT ![o].pc = "done", ![o].accounts = Accounts(accounts),
                                ![o].result = NoAccountIdError]
            /\ UNCHANGED accountId
    /\ UNCHANGED <<accessToken, rateLimitMetrics, now, ctorAccountId, entry, held>>

\* the body of a data response is read
DataJson(o, accounts) ==
    /\ op[o].pc = "dataJson"
    /\ LET r == op[o] IN
       IF r.phase = "main"
       THEN /\ op' = [op EXCEPT ![o].pc = "done",
                                ![o].result =
                                    Returned(CASE r.kind = "accounts" -> accounts
                                               [] r.kind = "devices" -> DevicesBody
                                               [] r.kind = "sensors" -> SensorsBody)]
            /\ UNCHANGED accountId
       ELSE IF Len(accounts) > 0
       THEN /\ accountId' = FirstAccountId(accounts)
            /\ op' = [op EXCEPT ![o].pc = "afterEnsure",
                                ![o].accounts = Accounts(accounts)]
       ELSE /\ op' = [op EXCEPT ![o].pc = "done", ![o].accounts = Accounts(accounts),
                                ![o].result = NoAccountIdError]
            /\ UNCHANGED accountId
    /\ UNCHANGED <<accessToken, rateLimitMetrics, now, ctorAccountId, entry, held>>

\* nothing has been obtained from getSensorsRateLimitMetrics
NoHeld == [none |-> TRUE]

\* a new object with the same three values
MetricsCopy(content) == [ref |-> FALSE, content |-> content]

\* a reference to the client's own #rateLimitMetrics object; content is what
\* the object held when the reference was returned
MetricsReference(content) == [ref |-> TRUE, content |-> content]

\* what the caller reads through the value h it holds: a reference shows the
\* object's present fields
Deref(h) == IF h.ref THEN rateLimitMetrics ELSE h.content

\* getSensorsRateLimitMetrics(): `return this.#rateLimitMetrics`, synchronous
GetSensorsRateLimitMetrics ==
    /\ held' = MetricsReference(rateLimitMetrics)
    /\ UNCHANGED <<accessToken, accountId, rateLimitMetrics, now, op, ctorAccountId, entry>>

\* the promise of a finished operation settles: its caller sees the result
Return(o) ==
    /\ op[o].pc = "done"
    /\ op' = [op EXCEPT ![o] = IdleOp]
    /\ entry' = NoEntry
    /\ UNCHANGED <<accessToken, accountId, rateLimitMetrics, now, ctorAccountId, held>>

\* the clock advances; not between a settled await and its continuation
Tick(max) ==
    /\ now < max * TickMs
    /\ \A o \in Slots : op[o].pc \notin {"afterEnsure", "afterRefresh", "done"}
    /\ now' = now + TickMs
    /\ UNCHANGED <<accessToken, accountId, rateLimitMetrics, op, ctorAccountId, entry, held>>

----------------------------------------------------------------------------
(* Specifications *)

InitialMetrics == [limit |-> Num(-1), remaining |-> Num(-1), reset |-> Num(-1)]

\* the state after the constructor
Init ==
    /\ accessToken = Null
    /\ ctorAccountId \in CtorAccountIds
    /\ accountId = ctorAccountId
    /\ rateLimitMetrics = InitialMetrics
    /\ now = 0
    /\ op = [o \in Slots |-> IdleOp]
    /\ entry = NoEntry
    /\ held = NoHeld

Kinds == {"accounts", "devices", "sensors"}

\* a finished operation's result is delivered before anything else happens
Quiet == \A p \in Slots : ~Finished(p)

\* the slots are used in order
InOrder(o) == \A p \in Slots : p < o => ~Free(p)

\* the steps of an operation that draw nothing from outside
Internal(o) ==
    \/ Quiet /\ AfterEnsure(o)
    \/ Quiet /\ AfterRefresh(o)
    \/ Return(o)

\* the network fails under a request in flight
FetchFails(o) == Quiet /\ FetchRejects(o)

\* --- one operation at a time: the caller awaits each before the next ------

SeqCall(o) ==
    /\ Quiet /\ InOrder(o)
    /\ \A p \in Slots : Free(p)
    /\ \E kind \in Kinds :
         \E args \in (IF kind = "sensors" THEN SensorArgs ELSE {NoArgs}) :
            Invoke(o, kind, args)

SeqTokenAnswer(o) == Quiet /\ \E resp \in Responses : TokenResponse(o, resp)

SeqTokenBody(o) == Quiet /\ \E tokenData \in TokenResponses : TokenJson(o, tokenData)

SeqDataAnswer(o) ==
    Quiet /\ \E resp \in Responses : \E h \in Headers : DataResponse(o, resp, h)

SeqDataBody(o) == Quiet /\ \E accounts \in AccountsBodies : DataJson(o, accounts)

\* the caller reads the metrics between two steps of the event loop
ReadMetrics == Quiet /\ GetSensorsRateLimitMetrics

\* a step of an operation, or the clock advances
SeqStep ==
    \/ \E o \in Slots :
          \/ SeqCall(o)
          \/ SeqTokenAnswer(o)
          \/ SeqTokenBody(o)
          \/ SeqDataAnswer(o)
          \/ SeqDataBody(o)
          \/ FetchFails(o)
          \/ Internal(o)
    \/ Tick(MaxTicks)

SeqNext == SeqStep \/ ReadMetrics

SeqSpec == Init /\ [][SeqNext]_vars

\* --- operations of one client may overlap --------------------------------

\* the inputs of the overlapping runs
ConcSensorArgs == {a \in SensorArgs : a.unit = "Imperial"}
ConcResponses == {r \in Responses : r.status # 500}
ConcTokenResponses == {t \in TokenResponses : t.expires_in # 900}
ConcHeaders == {h \in Headers : h.reset # Absent}
ConcAccountsBodies == {a \in AccountsBodies : a # <<>>}

Call(o) ==
    /\ Quiet /\ InOrder(o)
    /\ \E kind \in Kinds :
         \E args \in (IF kind = "sensors" THEN ConcSensorArgs ELSE {NoArgs}) :
            Invoke(o, kind, args)

TokenAnswer(o) == Quiet /\ \E resp \in ConcResponses : TokenResponse(o, resp)

TokenBody(o) == Quiet /\ \E tokenData \in ConcTokenResponses : TokenJson(o, tokenData)

DataAnswer(o) ==
    Quiet /\ \E resp \in ConcResponses : \E h \in ConcHeaders : DataResponse(o, resp, h)

DataBody(o) == Quiet /\ \E accounts \in ConcAccountsBodies : DataJson(o, accounts)

Next ==
    \/ \E o \in Slots :
          \/ Call(o)
          \/ TokenAnswer(o)
          \/ TokenBody(o)
          \/ DataAnswer(o)
          \/ DataBody(o)
          \/ FetchFails(o)
          \/ Internal(o)
    \/ Tick(ConcMaxTicks)

Spec == Init /\ [][Next]_vars

----------------------------------------------------------------------------
(* Properties *)

\* 5 * 60 * 1000, the margin as the properties state it
FiveMinutesMs == 300000

Range(seq) == {seq[i] : i \in DOMAIN seq}
Count(seq, x) == Cardinality({i \in DOMAIN seq : seq[i] = x})
Last(seq) == seq[Len(seq)]

DataEndpoints == {"accounts", "devices", "sensors"}

\* the decimal value of a string of digits
RECURSIVE Decimal(_)
Decimal(chars) ==
    IF chars = <<>> THEN 0
    ELSE Decimal(SubSeq(chars, 1, Len(chars) - 1)) * 10 + DigitVal(chars[Len(chars)])

IsInteger(h) ==
    h # Absent /\ h.value # <<>> /\ \A i \in DOMAIN h.value : h.value[i] \in Digits

\* tok is cached and its expiry is more than the margin after time t
FarFromExpiry(tok, t) == tok # Null /\ tok.expires - t > FiveMinutesMs

\* operation o ended because the token endpoint answered with a non-success status
FailedAtToken(o) ==
    /\ Finished(o) /\ op[o].reqs # <<>> /\ Last(op[o].reqs) = "token"
    /\ op[o].resp # NoResponse

\* operation o ended because a data endpoint answered with a non-2xx status
FailedAtData(o) ==
    /\ Finished(o) /\ op[o].reqs # <<>>
    /\ Last(op[o].reqs) \in DataEndpoints
    /\ op[o].resp # NoResponse /\ ~Ok(op[o].resp.status)

\* the error of o carries the status and the body of the response o received
CarriesResponse(o) ==
    op[o].result = [ok |-> FALSE, class |-> "AirthingsError",
                    message |-> <<"Request Error [", op[o].resp.status, ": ",
                                  op[o].resp.body, "]">>]

\* this step issues the token exchange of o / a data request of o
IssuesToken(o) == op[o].pc # "tokenFetch" /\ op'[o].pc = "tokenFetch"
IssuesData(o) == op[o].pc # "dataFetch" /\ op'[o].pc = "dataFetch"

\* C1: when the accounts endpoint answers the resolution step of getDevices or
\* getSensors with an empty list, the operation ends with the error
\* 'No Account ID' and has issued no devices or sensors request.
C1_EmptyAccountsFails ==
    \A o \in Slots :
        op[o].accounts = Accounts(<<>>) =>
            /\ Finished(o)
            /\ op[o].kind \in {"devices", "sensors"}
            /\ op[o].result = [ok |-> FALSE, class |-> "AirthingsError",
                               message |-> <<"No Account ID">>]
            /\ "devices" \notin Range(op[o].reqs)
            /\ "sensors" \notin Range(op[o].reqs)

C1_Witness ==
    /\ ctorAccountId = Undefined
    /\ \E o \in Slots :
         /\ Finished(o) /\ op[o].kind = "sensors"
         /\ op[o].accounts = Accounts(<<>>)
         /\ op[o].reqs = <<"token", "accounts">>

\* C2: a getDevices or getSensors call made when the account id is already
\* set never issues a request to the accounts endpoint, also when it has to
\* refresh the token.
C2_ResolutionSticky ==
    \A o \in Slots :
        op[o].kind \in {"devices", "sensors"} /\ op[o].acct0 # Undefined =>
            "accounts" \notin Range(op[o].reqs) /\ op[o].phase # "resolve"

C2_Witness ==
    /\ ctorAccountId = Undefined
    /\ now > 0
    /\ \E o \in Slots :
         /\ op[o].kind = "devices" /\ op[o].acct0 = "acct-1"
         /\ op[o].pc = "dataFetch"
         /\ op[o].reqs = <<"token", "devices">>

\* C3: the account id never changes value once it is set.
C3_AccountIdStable == [][accountId # Undefined => accountId' = accountId]_vars

\* C4: a token check made while the cached token's expiry is more than the
\* margin after the current time issues no token exchange; so an operation
\* that starts with such a token and ends while that still holds has issued
\* none, however many checks it made.
C4_FreshTokenNoExchange ==
    /\ [](\A o \in Slots :
            entry.alone /\ FarFromExpiry(entry.token, now) =>
                "token" \notin Range(op[o].reqs))
    /\ [][\A o \in Slots : IssuesToken(o) => ~FarFromExpiry(accessToken, now)]_vars

C4_Witness ==
    \E o \in Slots :
        /\ entry.alone /\ FarFromExpiry(entry.token, now) /\ now > entry.at
        /\ op[o].kind = "devices"
        /\ op[o].reqs = <<"accounts", "devices">>

\* C5: an operation that starts with a cached token whose expiry is within
\* the margin of the current time issues exactly one token exchange before
\* its first data request, never two exchanges in a row, and a further one
\* only when the token it obtained has itself come within the margin.
C5_StaleTokenOneRefresh ==
    /\ [](\A o \in Slots :
            (/\ entry.alone
             /\ entry.token # Null
             /\ entry.token.expires - entry.at <= FiveMinutesMs
             /\ op[o].pc # "idle"
             /\ (op[o].pc = "afterEnsure" => op[o].reqs # <<>>))
            => /\ op[o].reqs # <<>>
               /\ op[o].reqs[1] = "token"
               /\ \A i \in DOMAIN op[o].reqs :
                    i > 1 /\ op[o].reqs[i] = "token" => op[o].reqs[i - 1] # "token")
    /\ [][\A o \in Slots :
            IssuesToken(o) /\ "token" \in Range(op[o].reqs) =>
                ~FarFromExpiry(accessToken, now)]_vars

C5_Witness ==
    \E o \in Slots :
        /\ entry.alone /\ entry.token # Null
        /\ entry.token.expires - entry.at <= FiveMinutesMs
        /\ entry.token.expires > entry.at
        /\ op[o].kind = "devices"
        /\ op[o].reqs = <<"token", "devices">>

\* C6: every request to the accounts, devices or sensors endpoint carries the
\* cached token, and that token is not expired when the request is issued.
C6_BearerNotExpired ==
    [][\A o \in Slots :
          IssuesData(o) =>
              /\ accessToken # Null
              /\ op'[o].auth = <<accessToken.type, " ", accessToken.token>>
              /\ now < accessToken.expires]_vars

C6_Witness ==
    \E o \in Slots :
        /\ op[o].pc = "dataFetch" /\ op[o].reqs = <<"sensors">>
        /\ now > 0 /\ entry.alone /\ entry.at = now
        /\ accessToken # Null /\ now < accessToken.expires

\* C7: a non-success answer of the token endpoint leaves the cached token as
\* it was; the token is then still absent or within the margin, and an
\* operation that starts in that condition begins with a token exchange.
C7_FailedExchangeKeepsToken ==
    /\ [](\A o \in Slots :
            /\ FailedAtToken(o) => ~FarFromExpiry(accessToken, now)
            /\ FailedAtToken(o) /\ entry.alone /\ Count(op[o].reqs, "token") = 1
                   => accessToken = entry.token
            /\ (entry.alone /\ ~FarFromExpiry(entry.token, entry.at)
                    /\ op[o].reqs # <<>>) => op[o].reqs[1] = "token")
    /\ [][\A o \in Slots :
            op[o].pc = "tokenFetch" /\ op'[o].pc = "done" =>
                accessToken' = accessToken]_vars

C7_Witness ==
    \E o \in Slots :
        /\ FailedAtToken(o) /\ entry.alone
        /\ accessToken # Null /\ accessToken = entry.token

\* C8 as stated: the error of a failed token exchange carries status and body
\* and is of another kind than the error of a failed data request and than
\* the error of an empty accounts list.
C8_AuthenticationErrorKind ==
    \A o \in Slots :
        FailedAtToken(o) =>
            /\ CarriesResponse(o)
            /\ \A r \in ErrorResponses : op[o].result.class # RequestError(r).class
            /\ op[o].result.class # NoAccountIdError.class

\* C8 amended: the error of a failed token exchange is an AirthingsError whose
\* message 'Request Error [status: body]' carries the status and the body of
\* the token response; it is the error a failed data request with that status
\* and body raises, and differs from 'No Account ID' by its message only.
C8_TokenFailureIsRequestError ==
    \A o \in Slots :
        FailedAtToken(o) =>
            /\ ~Ok(op[o].resp.status)
            /\ CarriesResponse(o)
            /\ op[o].result # NoAccountIdError
            /\ op[o].result.class = NoAccountIdError.class

C8_Witness ==
    \E o \in Slots :
        FailedAtToken(o) /\ op[o].resp = [status |-> 401, body |-> "unauthorized"]

\* C9 as stated: after a data endpoint answered non-2xx, the error carries
\* status and body, and the cached token and the account id are what they
\* were when the operation was called.
C9_DataFailureLeavesState ==
    \A o \in Slots :
        FailedAtData(o) /\ entry.alone =>
            /\ CarriesResponse(o)
            /\ accessToken = entry.token
            /\ accountId = entry.accountId

\* the operation has set the account id before its request failed
ResolvedEarlier(o) ==
    /\ op[o].kind \in {"devices", "sensors"}
    /\ "accounts" \in Range(op[o].reqs)
    /\ Last(op[o].reqs) # "accounts"

\* C9 amended: after a data endpoint answered non-2xx, the error carries
\* status and body; handling that answer changes neither the cached token nor
\* the account id, which are what they were at the call except for a token
\* the operation obtained and an account id it resolved before the request.
C9_DataFailureKeepsState ==
    /\ [](\A o \in Slots :
            FailedAtData(o) /\ entry.alone =>
                /\ CarriesResponse(o)
                /\ "token" \notin Range(op[o].reqs) => accessToken = entry.token
                /\ "token" \in Range(op[o].reqs) => accessToken # Null
                /\ ~ResolvedEarlier(o) => accountId = entry.accountId
                /\ ResolvedEarlier(o) => accountId # Undefined)
    /\ [][\A o \in Slots :
            op[o].pc = "dataFetch" /\ op'[o].pc = "done" =>
                accessToken' = accessToken /\ accountId' = accountId]_vars

C9_Witness ==
    \E o \in Slots :
        /\ FailedAtData(o) /\ entry.alone
        /\ op[o].kind = "devices"
        /\ op[o].reqs = <<"token", "accounts", "devices">>
        /\ accessToken # entry.token /\ accountId # entry.accountId

\* the metric m is what the header h stands for
MetricOf(h, m) ==
    /\ h = Absent => m = Num(-1)
    /\ IsInteger(h) => m = Num(Decimal(h.value))

\* C10: after the sensors endpoint answered a getSensors call with 2xx, each
\* field of the rate-limit metrics is the integer of that response's header,
\* or -1 when the header is absent.
C10_MetricsFromHeaders ==
    \A o \in Slots :
        (/\ ReadsRateLimit(op[o])
         /\ op[o].pc \in {"dataJson", "done"}
         /\ Ok(op[o].resp.status))
        => /\ MetricOf(op[o].headers.limit, rateLimitMetrics.limit)
           /\ MetricOf(op[o].headers.remaining, rateLimitMetrics.remaining)
           /\ MetricOf(op[o].headers.reset, rateLimitMetrics.reset)

C10_Witness ==
    /\ rateLimitMetrics = [limit |-> Num(100), remaining |-> Num(99), reset |-> Num(-1)]
    /\ \E o \in Slots :
         /\ Finished(o) /\ op[o].kind = "sensors" /\ op[o].result.ok
         /\ op[o].args = [unit |-> "Imperial", sn |-> Sn(<<"111", "222">>)]
         /\ op[o].headers.reset = Absent

\* C11: when a rate-limit header of a 2xx sensors response is present but is
\* not an integer, the field of the metrics is -1, and the getSensors call
\* does not fail.
C11_UnparseableIsMinusOne ==
    \A o \in Slots :
        (/\ ReadsRateLimit(op[o])
         /\ op[o].pc \in {"dataJson", "done"}
         /\ op[o].resp # NoResponse /\ Ok(op[o].resp.status))
        => /\ Finished(o) => op[o].result.ok
           /\ \A f \in {"limit", "remaining", "reset"} :
                op[o].headers[f] # Absent /\ ~IsInteger(op[o].headers[f])
                    => rateLimitMetrics[f] = Num(-1)

\* the rate-limit headers named by the fields of the metrics
RateLimitFields == {"limit", "remaining", "reset"}

\* the metrics are those of the headers h, field by field
ReflectsHeaders(h) ==
    \A f \in RateLimitFields : MetricOf(h[f], rateLimitMetrics[f])

\* operation o is a getSensors call that the sensors endpoint has answered
SensorsAnswered(o) ==
    /\ ReadsRateLimit(op[o])
    /\ op[o].pc \in {"dataJson", "done"}
    /\ op[o].resp # NoResponse

\* C12 as stated: after a getSensors call that the sensors endpoint answered,
\* with 2xx or not, the metrics are those of the headers of that response.
C12_MetricsOfLastResponse ==
    \A o \in Slots :
        SensorsAnswered(o) /\ Finished(o) => ReflectsHeaders(op[o].headers)

\* C12 amended: after a getSensors call that the sensors endpoint answered
\* with 2xx, the metrics are those of the headers of that response; a non-2xx
\* answer of the sensors endpoint leaves the metrics as they were, whatever
\* its headers.
C12_MetricsOfLastOkResponse ==
    /\ [](\A o \in Slots :
            SensorsAnswered(o) /\ Finished(o) /\ op[o].result.ok
                => ReflectsHeaders(op[o].headers))
    /\ [][\A o \in Slots :
            (/\ op[o].pc = "dataFetch" /\ ReadsRateLimit(op[o])
             /\ op'[o].pc = "done")
            => rateLimitMetrics' = rateLimitMetrics]_vars

C12_Witness ==
    \E o \in Slots :
        /\ SensorsAnswered(o) /\ Finished(o) /\ ~op[o].result.ok
        /\ op[o].resp.status = 500
        /\ op[o].headers.limit = Absent
        /\ op[o].headers.reset = Header(<<"6", "0">>)
        /\ rateLimitMetrics = [limit |-> Num(100), remaining |-> Num(99), reset |-> Num(-1)]

\* C13: the metrics are {-1, -1, -1} after construction, and they change only
\* in the step in which a getSensors call receives a 2xx answer of the sensors
\* endpoint: no step of getAccounts, getDevices, a token exchange or an
\* account resolution changes them.
C13_OnlySensorsWritesMetrics ==
    /\ rateLimitMetrics = [limit |-> Num(-1), remaining |-> Num(-1), reset |-> Num(-1)]
    /\ [][rateLimitMetrics' # rateLimitMetrics =>
            \E o \in Slots :
                /\ op[o].kind = "sensors" /\ op[o].phase = "main"
                /\ op[o].pc = "dataFetch" /\ op'[o].pc = "dataJson"
                /\ Last(op[o].reqs) = "sensors"
                /\ Ok(op'[o].resp.status)]_vars

C13_Witness ==
    /\ rateLimitMetrics = [limit |-> Num(-1), remaining |-> Num(-1), reset |-> Num(-1)]
    /\ now > 0
    /\ ctorAccountId = Undefined /\ accountId = "acct-2"
    /\ \E o \in Slots :
         /\ Finished(o) /\ op[o].kind = "devices" /\ op[o].result.ok
         /\ op[o].reqs = <<"token", "accounts", "token", "devices">>

\* operation o is a getDevices or getSensors call made with no account id set
Unresolved(o) == op[o].kind \in {"devices", "sensors"} /\ op[o].acct0 = Undefined

\* operation o ended while resolving the account id
FailedResolving(o) == Finished(o) /\ Unresolved(o) /\ op[o].phase = "resolve"

\* C14: when the account resolution of a getDevices or getSensors call fails
\* (its token exchange fails, its accounts request fails, or the accounts list
\* is empty), the account id is still unset; and a getDevices or getSensors
\* call made with the account id unset requests the accounts endpoint before
\* any devices or sensors request.
C14_FailedResolutionRetried ==
    \A o \in Slots :
        /\ FailedResolving(o) =>
              /\ accountId = Undefined
              /\ ~op[o].result.ok
              /\ "devices" \notin Range(op[o].reqs)
              /\ "sensors" \notin Range(op[o].reqs)
        /\ Unresolved(o) =>
              /\ op[o].pc \in {"tokenFetch", "tokenJson", "afterRefresh"}
                     => op[o].phase = (IF "accounts" \in Range(op[o].reqs)
                                       THEN "main" ELSE "resolve")
              /\ \A i \in DOMAIN op[o].reqs :
                    op[o].reqs[i] \in {"devices", "sensors"} =>
                        \E j \in 1..(i - 1) : op[o].reqs[j] = "accounts"

C14_Witness ==
    /\ accessToken # Null /\ accountId = Undefined /\ now > 0
    /\ \E o \in Slots :
         /\ FailedResolving(o) /\ op[o].kind = "devices"
         /\ op[o].reqs = <<"accounts">>
         /\ op[o].resp = [status |-> 500, body |-> "oops"]

\* C15: when the constructor was given an account id, that id is never
\* overwritten, getDevices and getSensors never request the accounts
\* endpoint, and the path of their url is v1/accounts/<that id>/devices or
\* v1/accounts/<that id>/sensors.
C15_ExplicitAccountIdKept ==
    ctorAccountId # Undefined =>
        /\ accountId = ctorAccountId
        /\ \A o \in Slots :
             op[o].kind \in {"devices", "sensors"} =>
                /\ "accounts" \notin Range(op[o].reqs)
                /\ op[o].phase # "resolve"
                /\ op[o].kind \in Range(op[o].reqs) =>
                      op[o].url.path = <<"v1", "accounts", ctorAccountId, op[o].kind>>

C15_Witness ==
    /\ ctorAccountId = "acct-0" /\ now > 0
    /\ \E o \in Slots :
         /\ op[o].kind = "sensors" /\ op[o].pc = "dataFetch"
         /\ op[o].reqs = <<"token", "sensors">>
         /\ op[o].url.path = <<"v1", "accounts", "acct-0", "sensors">>
    /\ \E o \in Slots :
         /\ op[o].kind = "devices" /\ op[o].pc = "dataFetch"
         /\ op[o].url.path = <<"v1", "accounts", "acct-0", "devices">>

\* the token response that granted the token tok
GrantedAs(tok) == CHOOSE t \in TokenResponses : t.access_token = tok.token

\* operation o is a getDevices call made alone on a client that has neither
\* a token nor an account id
FreshGetDevices(o) ==
    /\ entry.alone /\ entry.token = Null /\ entry.accountId = Undefined
    /\ op[o].kind = "devices"

\* what such a call has done when it returns the devices, if it made one exchange
DevicesScenario(o) ==
    Finished(o) /\ op[o].result.ok /\ Count(op[o].reqs, "token") = 1 =>
        /\ op[o].reqs = <<"token", "accounts", "devices">>
        /\ op[o].url.path = <<"v1", "accounts", accountId, "devices">>
        /\ op[o].result = [ok |-> TRUE, data |-> DevicesBody]

\* C16 as stated: on a new client without account id, when the tokens granted
\* have expires_in above the margin and the accounts list is not empty, one
\* getDevices call issues one token exchange, one accounts request and one
\* devices request for the first account's id, in that order, and returns the
\* devices.
C16_OneExchangeScenario ==
    /\ [](\A o \in Slots :
            FreshGetDevices(o) =>
                /\ DevicesScenario(o)
                /\ op[o].pc = "afterEnsure" /\ op[o].accounts.received
                       => accountId = op[o].accounts.list[1].id)
    /\ [][\A o \in Slots :
            FreshGetDevices(o) /\ IssuesToken(o) /\ "token" \in Range(op[o].reqs)
                => GrantedAs(accessToken).expires_in * 1000 <= FiveMinutesMs]_vars

\* C16 amended: such a call issues a token exchange, then one accounts
\* request, then one devices request for the first account's id, and returns
\* the devices; a second token exchange precedes the devices request exactly
\* when the token granted has come within the margin by then.
C16_DevicesScenario ==
    /\ [](\A o \in Slots :
            FreshGetDevices(o) =>
                /\ DevicesScenario(o)
                /\ op[o].pc = "afterEnsure" /\ op[o].accounts.received
                       => accountId = op[o].accounts.list[1].id
                /\ Finished(o) /\ op[o].result.ok =>
                       /\ op[o].reqs \in {<<"token", "accounts", "devices">>,
                                          <<"token", "accounts", "token", "devices">>}
                       /\ op[o].url.path = <<"v1", "accounts", accountId, "devices">>)
    /\ [][\A o \in Slots :
            (/\ FreshGetDevices(o) /\ op[o].pc = "afterEnsure"
             /\ op[o].reqs = <<"token", "accounts">> /\ op'[o].pc # "afterEnsure")
            => (IssuesToken(o) <=> accessToken.expires - now <= FiveMinutesMs)]_vars

C16_Witness ==
    \E o \in Slots :
        /\ FreshGetDevices(o) /\ Finished(o) /\ now > entry.at
        /\ op[o].reqs = <<"token", "accounts", "devices">>
        /\ op[o].result = [ok |-> TRUE, data |-> DevicesBody]
        /\ accountId = "acct-2"
        /\ op[o].url.path = <<"v1", "accounts", "acct-2", "devices">>
        /\ accessToken.token = "tok1"

\* the characters of list joined by commas: value has the elements of list at
\* its odd positions, in order, and "," at its even positions
IsCommaJoined(value, list) ==
    /\ Len(value) = 2 * Len(list) - 1
    /\ \A i \in DOMAIN list : value[2 * i - 1] = list[i]
    /\ \A i \in 1..(Len(list) - 1) : value[2 * i] = ","

\* the values of the query parameters called name
QueryValues(query, name) ==
    {query[i].value : i \in {j \in DOMAIN query : query[j].name = name}}

\* C17: the url of the sensors request of getSensors(unit, sn) has one query
\* parameter unit, metric for Metric and imperial for Imperial; it has one
\* parameter sn, the serial numbers joined by commas in the order given,
\* exactly when sn is a list that is not empty; it has no other parameter.
C17_SensorsQuery ==
    \A o \in Slots :
        op[o].kind = "sensors" /\ op[o].phase = "main" =>
            LET q == op[o].url.query
                sn == op[o].args.sn
                hasSn == sn # NoSn /\ sn.list # <<>>
            IN /\ op[o].url.path = <<"v1", "accounts", op[o].url.path[3], "sensors">>
               /\ QueryValues(q, "unit") =
                     {<<IF op[o].args.unit = "Metric" THEN "metric" ELSE "imperial">>}
               /\ Len(q) = (IF hasSn THEN 2 ELSE 1)
               /\ hasSn => \E v \in QueryValues(q, "sn") : IsCommaJoined(v, sn.list)
               /\ ~hasSn => QueryValues(q, "sn") = {}

C17_Witness ==
    \E o \in Slots :
        /\ op[o].pc = "dataFetch" /\ Last(op[o].reqs) = "sensors"
        /\ op[o].args = [unit |-> "Imperial", sn |-> Sn(<<"111", "222">>)]
        /\ op[o].url.query = <<[name |-> "unit", value |-> <<"imperial">>],
                               [name |-> "sn", value |-> <<"111", ",", "222">>]>>

\* C18: every failure of getAccounts, getDevices and getSensors reaches the
\* caller as an AirthingsError, also when the fetch of the token endpoint or
\* of a data endpoint rejects.
C18_EveryFailureIsAirthingsError ==
    \A o \in Slots :
        Finished(o) /\ ~op[o].result.ok => op[o].result.class = "AirthingsError"

\* operation o has received a non-2xx answer
AnsweredWithError(o) == op[o].resp # NoResponse /\ ~Ok(op[o].resp.status)

\* this step issues a request of operation o
IssuesRequest(o) == Len(op'[o].reqs) > Len(op[o].reqs)

\* C19: an operation requests each of the accounts, devices and sensors
\* endpoints at most once; once a request of it has failed, by a non-2xx
\* answer or by a rejected fetch, the operation is finished with that failure
\* and issues no further request.
C19_NoRetry ==
    /\ [](\A o \in Slots :
            /\ \A e \in DataEndpoints : Count(op[o].reqs, e) <= 1
            /\ AnsweredWithError(o) => Finished(o) /\ ~op[o].result.ok
            /\ op[o].result # NoResult => Finished(o))
    /\ [][\A o \in Slots :
            /\ Finished(o) => ~IssuesRequest(o)
            /\ IssuesRequest(o) => ~AnsweredWithError(o) /\ op[o].result = NoResult
            /\ op[o].pc \in {"tokenFetch", "dataFetch"} => ~IssuesRequest(o)]_vars

C19_Witness ==
    \E o \in Slots :
        /\ Finished(o) /\ op[o].kind = "sensors"
        /\ op[o].reqs = <<"token", "accounts", "token">>
        /\ AnsweredWithError(o) /\ op[o].resp.status = 401

\* the tokens carried by the data requests in flight
TokensInFlight == {op[o].auth : o \in {p \in Slots : op[p].pc = "dataFetch"}}

\* C20: every data request in flight carries the cached token, so no two
\* requests in flight carry different tokens and none carries a token other
\* than the cached one.
C20_OneLiveToken ==
    /\ Cardinality(TokensInFlight) <= 1
    /\ \A a \in TokensInFlight :
          accessToken # Null /\ a = <<accessToken.type, " ", accessToken.token>>

\* the operations whose token exchange is in flight
Exchanging == {o \in Slots : op[o].pc \in {"tokenFetch", "tokenJson"}}

\* C21: a cached token that has reached the refresh condition (or the absent
\* token) is replaced by one token exchange: no token exchange is issued
\* while another one, issued for the same cached token, is in flight.
C21_OneExchangePerExpiry == Cardinality(Exchanging) <= 1

\* this step stores the token that the exchange of operation o returned
StoresToken(o) == op[o].pc = "tokenJson" /\ op'[o].pc = "afterRefresh"

\* C22: when the token exchanges of two operations overlap, each exchange
\* that completes replaces the cached token by its own response, all three
\* fields at once, so the cached token is that of the exchange that completed
\* last; the cached token changes in no other step; and every data request
\* carries a token that a token response returned.
C22_LastExchangeWins ==
    /\ [][\A o \in Slots :
            StoresToken(o) =>
                accessToken' = [token |-> op'[o].tokenData.access_token,
                                type |-> op'[o].tokenData.token_type,
                                expires |-> op'[o].tokenData.expires_in * 1000 + now]]_vars
    /\ [][accessToken' # accessToken => \E o \in Slots : StoresToken(o)]_vars
    /\ [](\A o \in Slots :
            op[o].pc = "dataFetch" =>
                \E t \in TokenResponses :
                    op[o].auth = <<t.token_type, " ", t.access_token>>)

C22_Witness ==
    \E o1, o2 \in Slots :
        /\ op[o1].pc = "dataFetch" /\ op[o2].pc = "dataFetch"
        /\ op[o1].reqs = <<"token", "accounts">> /\ op[o2].reqs = <<"token", "accounts">>
        /\ op[o1].auth = <<"bearer", " ", "tok2">>
        /\ op[o2].auth = <<"Bearer", " ", "tok3">>
        /\ accessToken = [token |-> "tok3", type |-> "Bearer", expires |-> 1000]

\* the operations that were called with no account id set and have built
\* the url of their devices or sensors request
ScopedAfterResolving ==
    {o \in Slots : Unresolved(o) /\ op[o].phase = "main"}

\* C23: when two getDevices / getSensors calls overlap on a client without
\* account id, the urls of both embed the same account id, and it is the
\* account id that is stored.
C23_RaceSameAccountId ==
    \A o \in ScopedAfterResolving :
        /\ op[o].url.path[3] = accountId
        /\ \A p \in ScopedAfterResolving : op[p].url.path[3] = op[o].url.path[3]

\* this step makes the token check of operation o: #refreshAccessToken is
\* entered and either returns at once or issues the exchange
ChecksToken(o) ==
    /\ op[o].pc \in {"idle", "afterEnsure"}
    /\ op'[o].pc \in {"tokenFetch", "afterRefresh"}

\* C24 as stated: the check issues a token exchange exactly when no token is
\* cached or now > expires - 5 minutes; at now = expires - 5 minutes it does not.
C24_RefreshIffPastMargin ==
    [][\A o \in Slots :
          ChecksToken(o) =>
              (IssuesToken(o) <=>
                  (IF accessToken = Null THEN TRUE
                   ELSE now > accessToken.expires - FiveMinutesMs))]_vars

\* C24 amended: the check issues a token exchange exactly when no token is
\* cached or now >= expires - 5 minutes, so also at now = expires - 5
\* minutes; otherwise it issues no request.
C24_RefreshIffAtOrPastMargin ==
    [][\A o \in Slots :
          ChecksToken(o) =>
              /\ IssuesToken(o) <=>
                    (IF accessToken = Null THEN TRUE
                     ELSE now >= accessToken.expires - FiveMinutesMs)
              /\ ~IssuesToken(o) => op'[o].reqs = op[o].reqs]_vars

C24_Witness ==
    \E o \in Slots :
        /\ entry.alone /\ entry.at = now
        /\ op[o].kind = "accounts" /\ op[o].pc = "tokenFetch"
        /\ op[o].reqs = <<"token">>
        /\ accessToken # Null
        /\ now = accessToken.expires - FiveMinutesMs

\* C25: the three token checks of the source decide alike for every cached
\* token and time: each returns at once exactly when a token is cached and
\* its expiry is more than 5 minutes after now.
C25_ChecksAgree ==
    LET fresh == FarFromExpiry(accessToken, now)
    IN /\ TokenFresh(accessToken, now) <=> fresh
       /\ EarlierTokenFresh(accessToken, now) <=> fresh
       /\ IndexTokenFresh(accessToken, now) <=> fresh

\* the instants up to now at which the clock has stood
PastInstants == {k * TickMs : k \in 0..(now \div TickMs)}

\* C26: the cached token is null, or its three fields are those of one token
\* response: access_token, token_type, and expires_in * 1000 added to an
\* instant not after now, at which it was stored.
C26_TokenFromOneResponse ==
    \/ accessToken = [null |-> TRUE]
    \/ \E t \in TokenResponses : \E stored \in PastInstants :
          accessToken = [token |-> t.access_token,
                         type |-> t.token_type,
                         expires |-> stored + t.expires_in * 1000]

C26_Witness ==
    /\ now = 300000
    /\ accessToken = [token |-> "tok2", type |-> "bearer", expires |-> 900000]
    /\ \E o \in Slots : op[o].reqs = <<"token", "accounts", "token">>
                        /\ op[o].pc = "afterRefresh"

\* C27: on a client constructed without account id, whenever the account id
\* is set a token is cached; and a cached token is never replaced by null.
C27_Progression ==
    /\ [](ctorAccountId = Undefined /\ accountId # Undefined => accessToken # Null)
    /\ [][accessToken # Null => accessToken' # Null]_vars

C27_Witness ==
    /\ ctorAccountId = Undefined /\ accountId = "acct-1"
    /\ accessToken # Null /\ now >= accessToken.expires
    /\ \E o \in Slots : FailedAtToken(o) /\ op[o].kind = "devices"

\* C28: the Authorization header of every data request is '<type> <token>'
\* of the token that is cached in the step that issues the request, and the
\* type is the token_type that the token endpoint returned with that token.
C28_HeaderFromCachedToken ==
    [][\A o \in Slots :
          IssuesData(o) =>
              /\ accessToken # Null /\ accessToken' = accessToken
              /\ Len(op'[o].auth) = 3
              /\ op'[o].auth[1] = accessToken'.type
              /\ op'[o].auth[2] = " "
              /\ op'[o].auth[3] = accessToken'.token
              /\ \E t \in TokenResponses :
                    t.access_token = op'[o].auth[3] /\ t.token_type = op'[o].auth[1]]_vars

C28_Witness ==
    \E o \in Slots :
        /\ op[o].pc = "dataFetch" /\ op[o].kind = "devices"
        /\ op[o].reqs = <<"devices">>
        /\ op[o].auth = <<"bearer", " ", "tok2">>
        /\ accessToken = [token |-> "tok2", type |-> "bearer", expires |-> 600000]

\* C29 as stated: an operation in which a token exchange failed has issued no
\* request to the accounts, devices or sensors endpoint.
C29_FailedExchangeNoDataRequest ==
    \A o \in Slots :
        FailedAtToken(o) => Range(op[o].reqs) \cap DataEndpoints = {}

\* C29 amended: a data request is issued only in the step after the token
\* check of the same operation: the check found the token more than the margin
\* from expiry, or its exchange succeeded and the token was stored. An exchange
\* that fails ends the operation without any further request, also when a
\* token is cached; the accounts request of the resolution step may have been
\* issued earlier in the operation.
C29_CheckBeforeEveryRequest ==
    /\ [][\A o \in Slots :
            /\ IssuesData(o) => op[o].pc = "afterRefresh"
            /\ (op[o].pc # "afterRefresh" /\ op'[o].pc = "afterRefresh") =>
                  \/ StoresToken(o)
                  \/ ChecksToken(o) /\ FarFromExpiry(accessToken, now)
            /\ (op[o].pc = "tokenFetch" /\ op'[o].pc \notin {"tokenFetch", "tokenJson"}) =>
                  op'[o].pc = "done" /\ op'[o].reqs = op[o].reqs]_vars
    /\ [](\A o \in Slots :
            /\ op[o].pc = "tokenJson" => Ok(op[o].resp.status)
            /\ (Finished(o) /\ op[o].reqs # <<>> /\ Last(op[o].reqs) = "token")
                   => ~op[o].result.ok
            /\ FailedAtToken(o) =>
                   Range(op[o].reqs) \cap DataEndpoints \subseteq {"accounts"})

C29_Witness ==
    \E o \in Slots :
        /\ FailedAtToken(o) /\ op[o].kind = "devices"
        /\ op[o].reqs = <<"accounts", "token">>
        /\ accessToken # Null /\ accessToken = entry.token
        /\ now < accessToken.expires

\* what parseInt(header || '-1') gives for the header strings of Headers:
\* -1 for an absent or empty header, the integer of a string of digits, NaN
\* for a string that starts with no digit
Parsed(h) ==
    IF h = Absent \/ h.value = <<>> THEN Num(-1)
    ELSE IF IsInteger(h) THEN Num(Decimal(h.value))
    ELSE NaN

\* the three metrics read from the headers h of one response
SnapshotOf(h) ==
    [limit |-> Parsed(h.limit), remaining |-> Parsed(h.remaining),
     reset |-> Parsed(h.reset)]

\* operation o receives a 2xx answer of the sensors endpoint in this step
SensorsOkAnswer(o) ==
    /\ op[o].pc = "dataFetch" /\ ReadsRateLimit(op[o])
    /\ op'[o].pc = "dataJson"

\* C30: with getSensors calls overlapping on one client, the step that
\* processes a 2xx sensors response writes the three metrics together, from
\* the headers of that response alone; so in every state the metrics are the
\* initial {-1, -1, -1} or the three values read from one response, never
\* fields of two responses.
C30_SnapshotOfOneResponse ==
    /\ [](\/ rateLimitMetrics = [limit |-> Num(-1), remaining |-> Num(-1),
                                 reset |-> Num(-1)]
          \/ \E h \in Headers : rateLimitMetrics = SnapshotOf(h))
    /\ [][\A o \in Slots :
            SensorsOkAnswer(o) =>
                rateLimitMetrics' = SnapshotOf(op'[o].headers)]_vars

C30_Witness ==
    /\ op[1].kind = "sensors" /\ op[2].kind = "sensors"
    /\ op[1].pc = "dataJson" /\ op[2].pc = "dataJson"
    /\ op[1].phase = "main" /\ op[2].phase = "main"
    /\ op[1].headers.limit = Absent
    /\ op[2].headers.limit = Header(<<"a", "b", "c">>)
    /\ rateLimitMetrics = [limit |-> Num(-1), remaining |-> Num(-1), reset |-> Num(60)]

\* this step is a call of getSensorsRateLimitMetrics
ReadsMetrics == held' # held

\* C31: what getSensorsRateLimitMetrics returned shows the client's present
\* metrics at every later moment: after a later getSensors call answered with
\* 2xx it shows the values of that response's headers, though it was obtained
\* before. The call itself issues no request and changes nothing of the
\* client or of an operation in progress.
C31_MetricsByReference ==
    /\ [](held # NoHeld => Deref(held) = rateLimitMetrics)
    /\ [][\A o \in Slots :
            SensorsOkAnswer(o) /\ held # NoHeld =>
                /\ held' = held
                /\ Deref(held)' = SnapshotOf(op'[o].headers)]_vars
    /\ [][ReadsMetrics =>
            /\ held'.content = rateLimitMetrics
            /\ UNCHANGED <<accessToken, accountId, rateLimitMetrics, now, op>>]_vars

C31_Witness ==
    /\ held # NoHeld
    /\ held.content = [limit |-> Num(-1), remaining |-> Num(-1), reset |-> Num(-1)]
    /\ Deref(held) = [limit |-> Num(100), remaining |-> Num(99), reset |-> Num(-1)]
    /\ \E o \in Slots : op[o].kind = "sensors" /\ op[o].pc = "dataJson"

\* every request of operation o gets a response or a rejection
Answered(o) == SeqTokenAnswer(o) \/ SeqDataAnswer(o) \/ FetchFails(o)

\* the body of every response received is read to its end
BodyRead(o) == SeqTokenBody(o) \/ SeqDataBody(o)

\* operations one at a time, with no call of getSensorsRateLimitMetrics,
\* where every request is answered or rejected, every body is read and the
\* event loop runs every continuation
FairSeqSpec ==
    /\ Init /\ [][SeqStep]_vars
    /\ \A o \in Slots :
          /\ WF_vars(Answered(o))
          /\ WF_vars(BodyRead(o))
          /\ WF_vars(Internal(o))

\* operation o lists the accounts itself or was called with the account id set
SinglePhase(o) == op[o].kind = "accounts" \/ ~Falsy(op[o].acct0)

\* C32: if every request is answered or rejected, every operation called ends
\* with data or with an error; and an operation issues at most one token
\* exchange and one data request when it is getAccounts or the account id
\* was set at its call, and otherwise at most two token exchanges, one
\* accounts request and one devices or sensors request.
C32_TerminatesWithBoundedRequests ==
    /\ \A o \in Slots :
          (op[o].pc # "idle") ~> (Finished(o) /\ op[o].result # NoResult)
    /\ [](\A o \in Slots :
            /\ SinglePhase(o) =>
                  /\ Count(op[o].reqs, "token") <= 1
                  /\ Len(op[o].reqs) - Count(op[o].reqs, "token") <= 1
            /\ ~SinglePhase(o) =>
                  /\ Count(op[o].reqs, "token") <= 2
                  /\ Count(op[o].reqs, "accounts") <= 1
                  /\ Count(op[o].reqs, "devices") + Count(op[o].reqs, "sensors") <= 1)

C32_Witness ==
    \E o \in Slots :
        /\ Finished(o) /\ op[o].result.ok /\ op[o].kind = "sensors"
        /\ ~SinglePhase(o)
        /\ op[o].reqs = <<"token", "accounts", "token", "sensors">>
        /\ rateLimitMetrics # [limit |-> Num(-1), remaining |-> Num(-1), reset |-> Num(-1)]

\* this step is a step of operation o, which is a direct getAccounts call
StepOfGetAccounts(o) ==
    /\ op'[o] # op[o]
    /\ op[o].kind = "accounts" \/ op'[o].kind = "accounts"

\* this step is the call of a getDevices or getSensors
CallsScoped(o) ==
    /\ op[o].pc = "idle" /\ op'[o].pc # "idle"
    /\ op'[o].kind \in {"devices", "sensors"}

\* C33: no step of a direct getAccounts call changes the account id, whatever
\* the accounts it returns; so a getDevices or getSensors called afterwards
\* with no account id set lists the accounts again, and the account id
\* changes only when a getDevices or getSensors call reads the accounts of
\* its resolution step, to the id of the first of them.
C33_GetAccountsLeavesAccountId ==
    /\ [][\A o \in Slots :
            /\ StepOfGetAccounts(o) => accountId' = accountId
            /\ (CallsScoped(o) /\ Falsy(accountId)) =>
                  /\ op'[o].phase = "resolve" /\ op'[o].url = AccountsUrl
                  /\ op'[o].pc \in {"tokenFetch", "afterRefresh"}]_vars
    /\ [][accountId' # accountId =>
            \E o \in Slots :
                /\ op[o].kind \in {"devices", "sensors"}
                /\ op[o].phase = "resolve" /\ op[o].pc = "dataJson"
                /\ Last(op[o].reqs) = "accounts"
                /\ op'[o].accounts # NoAccounts
                /\ accountId' = op'[o].accounts.list[1].id]_vars
    /\ [](\A o \in Slots :
            (op[o].kind = "accounts" /\ op[o].reqs # <<>>) =>
                /\ op[o].phase = "main"
                /\ accountId = op[o].acct0)

C33_Witness ==
    \E o \in Slots :
        /\ Finished(o) /\ op[o].kind = "accounts"
        /\ op[o].result = Returned(<<[id |-> "acct-2"], [id |-> "acct-1"]>>)
        /\ ctorAccountId = Undefined /\ accountId = Undefined
        /\ op[o].reqs = <<"accounts">>

\* #refreshAccessToken of operation o has returned without raising and
\* #handleFetch has not yet gone on
RefreshReturned(o) == op[o].pc = "afterRefresh"

\* C34: whenever #refreshAccessToken has returned without raising, a token
\* is cached, whatever the other operation in progress has done meanwhile; so
\* no operation ends with the error 'No Access Token'.
C34_NoAccessTokenUnreachable ==
    \A o \in Slots :
        /\ RefreshReturned(o) => accessToken # Null
        /\ op[o].result # NoAccessTokenError
        /\ op[o].pc \in {"dataFetch", "dataJson"} => accessToken # Null

C34_Witness ==
    /\ RefreshReturned(1) /\ op[1].tokenData # NoTokenData
    /\ op[2].pc = "tokenFetch"
    /\ accessToken # Null /\ accessToken.token = op[1].tokenData.access_token

====
